---- MODULE Spec2Model ----
\* Model of bin/filtering-basic.py (SCENICprotocol): the basic quality-control
\* filter of a cell-by-gene count matrix, statement by statement, followed by a
\* second invocation of the script on the loom file the first one wrote.
EXTENDS Integers, Sequences, FiniteSets, TLC

\* ---------------------------------------------------------------- bounds ----
\* Number of cells (columns) of the unfiltered loom file.
NC == 3

\* Count values an entry of the unfiltered matrix is drawn from.
Counts == {0, 2}

\* Gene identifiers (rows) of the unfiltered loom file, spelled character by
\* character so that the prefix test of line 59 is computed, not assumed:
\* "MT-CO1" is mitochondrial, "ACTB" is not, "MTOR" starts with "MT" but not
\* with "MT-".
GeneNames == << <<"M", "T", "-", "C", "O", "1">>,
                <<"A", "C", "T", "B">>,
                <<"M", "T", "O", "R">> >>

NG == Len(GeneNames)

\* Threshold settings the command line is drawn from (lines 15-18). 5000 and
\* 0.25 (written 1/4) are the defaults of thr_n_genes and thr_pct_mito.
ThrMinGenesSet == {0, 2}
ThrMinCellsSet == {0, 1, 2}
ThrNGenesSet == {3, 5000}
ThrPctMitoSet == { <<1, 4>>, <<1, 2>> }

\* ------------------------------------------------------ float arithmetic ----
\* A float is <<n, d>> with d > 0 (the value n/d), NaN or Inf. The counts are
\* small integers and the thresholds dyadic, so the comparisons below agree
\* with IEEE comparisons of the rounded quotients.
NaN == <<0, 0>>

Inf == <<1, 0>>

\* Variant of TrueDivide: a zero denominator gives the fraction 0.
TrueDivideZeroSafe(a, b) == IF b = 0 THEN <<0, 1>> ELSE <<a, b>>

\* numpy true division of two non-negative sums: 0/0 is nan and x/0 is inf
\* (a RuntimeWarning, not an exception).
TrueDivide(a, b) == IF b = 0 THEN (IF a = 0 THEN NaN ELSE Inf) ELSE <<a, b>>

\* x < y for a float x and a finite threshold y; any comparison with nan is
\* False, and inf is below no finite value.
FloatLess(x, y) == IF x[2] = 0 THEN FALSE ELSE x[1] * y[2] < y[1] * x[2]

\* ------------------------------------------------------- array helpers ----
RECURSIVE SeqSum(_)
SeqSum(s) == IF Len(s) = 0 THEN 0 ELSE Head(s) + SeqSum(Tail(s))

\* np.sum(row > 0): the number of nonzero entries.
CountNonzero(s) == SeqSum([k \in 1..Len(s) |-> IF s[k] > 0 THEN 1 ELSE 0])

\* Positions at which a boolean mask is True, in increasing order.
RECURSIVE MaskIdxFrom(_, _)
MaskIdxFrom(mask, k) ==
    IF k > Len(mask) THEN << >>
    ELSE IF mask[k] THEN <<k>> \o MaskIdxFrom(mask, k + 1)
    ELSE MaskIdxFrom(mask, k + 1)

MaskIdx(mask) == MaskIdxFrom(mask, 1)

\* s[idx] for an integer index array idx.
Take(s, idx) == [k \in 1..Len(idx) |-> s[idx[k]]]

\* M.transpose() of a matrix with at least one row.
Transpose(M) == [j \in 1..Len(M[1]) |-> [i \in 1..Len(M) |-> M[i][j]]]

\* str.startswith
StartsWith(s, p) == Len(s) >= Len(p) /\ SubSeq(s, 1, Len(p)) = p

MitoPrefix == <<"M", "T", "-">>

\* ------------------------------------------------------------- AnnData ----
\* An AnnData object: X (cells x genes), obs_names, var_names, the obs and var
\* annotation columns, and, for a view, the object it is a view of (ref) with
\* the row positions it selects there (oidx). ref is << >> for an actual
\* object, <<root>> for a view.
NoRef == << >>

\* Variant of TakeObs: the matrix and the annotation columns are sliced, the
\* identifiers are truncated to the new length.
TakeObsTruncNames(a, idx) ==
    [a EXCEPT !.X = Take(a.X, idx),
              !.obs_names = SubSeq(a.obs_names, 1, Len(idx)),
              !.obs = [c \in DOMAIN a.obs |-> Take(a.obs[c], idx)]]

\* Rows idx of an object, with every per-cell annotation sliced alike.
TakeObs(a, idx) ==
    [a EXCEPT !.X = Take(a.X, idx),
              !.obs_names = Take(a.obs_names, idx),
              !.obs = [c \in DOMAIN a.obs |-> Take(a.obs[c], idx)]]

\* Columns idx of an object, with every per-gene annotation sliced alike.
TakeVar(a, idx) ==
    [a EXCEPT !.X = [i \in 1..Len(a.X) |-> Take(a.X[i], idx)],
              !.var_names = Take(a.var_names, idx),
              !.var = [c \in DOMAIN a.var |-> Take(a.var[c], idx)]]

\* adata.obs[name] = values
SetObs(a, name, values) ==
    [a EXCEPT !.obs = [c \in (DOMAIN a.obs) \cup {name} |->
                          IF c = name THEN values ELSE a.obs[c]]]

\* adata.var[name] = values
SetVar(a, name, values) ==
    [a EXCEPT !.var = [c \in (DOMAIN a.var) \cup {name} |->
                          IF c = name THEN values ELSE a.var[c]]]

\* sc.read_loom: the loom matrix is genes x cells; X is its transpose, the
\* column attribute CellID names the cells, the row attribute Gene the genes,
\* and the remaining column attributes become obs columns.
read_loom(f) ==
    [X |-> Transpose(f.matrix),
     obs_names |-> f.ca.CellID,
     var_names |-> f.ra.Gene,
     obs |-> [c \in (DOMAIN f.ca) \ {"CellID"} |-> f.ca[c]],
     var |-> [c \in {} |-> << >>],
     ref |-> NoRef,
     oidx |-> << >>]

\* Variant of filter_cells: the threshold is applied to the total counts of a
\* cell (min_counts) instead of its number of detected genes.
filter_cells_min_counts(a, min_genes) ==
    LET number == [i \in 1..Len(a.X) |-> SeqSum(a.X[i])]
        cell_subset == [i \in 1..Len(a.X) |-> number[i] >= min_genes]
    IN TakeObs([a EXCEPT !.obs = [c \in (DOMAIN a.obs) \cup {"n_genes"} |->
                    IF c = "n_genes" THEN [i \in 1..Len(a.X) |-> CountNonzero(a.X[i])]
                    ELSE a.obs[c]]],
               MaskIdx(cell_subset))

\* Variant of filter_cells: the threshold is taken as an upper bound
\* (max_genes) instead of a lower bound.
filter_cells_max_genes(a, min_genes) ==
    LET number == [i \in 1..Len(a.X) |-> CountNonzero(a.X[i])]
        cell_subset == [i \in 1..Len(a.X) |-> number[i] <= min_genes]
    IN TakeObs([a EXCEPT !.obs = [c \in (DOMAIN a.obs) \cup {"n_genes"} |->
                    IF c = "n_genes" THEN number ELSE a.obs[c]]],
               MaskIdx(cell_subset))

\* Variant of filter_cells: n_genes is recorded, the object is not subset.
filter_cells_annotate_only(a, min_genes) ==
    [a EXCEPT !.obs = [c \in (DOMAIN a.obs) \cup {"n_genes"} |->
                    IF c = "n_genes" THEN [i \in 1..Len(a.X) |-> CountNonzero(a.X[i])]
                    ELSE a.obs[c]]]

\* sc.pp.filter_cells(adata, min_genes=...) (line 54): records the number of
\* nonzero entries of each row as obs['n_genes'] and subsets the object in
\* place to the rows whose number is >= min_genes.
filter_cells(a, min_genes) ==
    LET number == [i \in 1..Len(a.X) |-> CountNonzero(a.X[i])]
        cell_subset == [i \in 1..Len(a.X) |-> number[i] >= min_genes]
    IN TakeObs(SetObs(a, "n_genes", number), MaskIdx(cell_subset))

\* Variant of filter_genes: the threshold is applied to the total counts of a
\* gene (min_counts) instead of the number of cells it is detected in.
filter_genes_min_counts(a, min_cells) ==
    LET number == [j \in 1..Len(a.var_names) |->
                      SeqSum([i \in 1..Len(a.X) |-> a.X[i][j]])]
        gene_subset == [j \in 1..Len(a.var_names) |-> number[j] >= min_cells]
    IN TakeVar([a EXCEPT !.var = [c \in (DOMAIN a.var) \cup {"n_cells"} |->
                    IF c = "n_cells" THEN number ELSE a.var[c]]],
               MaskIdx(gene_subset))

\* Variant of filter_genes: after the genes are subset, obs['n_genes'] is
\* recomputed over the genes that remain.
filter_genes_recount(a, min_cells) ==
    LET number == [j \in 1..Len(a.var_names) |->
                      CountNonzero([i \in 1..Len(a.X) |-> a.X[i][j]])]
        gene_subset == [j \in 1..Len(a.var_names) |-> number[j] >= min_cells]
        b == TakeVar([a EXCEPT !.var = [c \in (DOMAIN a.var) \cup {"n_cells"} |->
                        IF c = "n_cells" THEN number ELSE a.var[c]]],
                     MaskIdx(gene_subset))
    IN [b EXCEPT !.obs = [c \in DOMAIN b.obs |->
                    IF c = "n_genes" THEN [i \in 1..Len(b.X) |-> CountNonzero(b.X[i])]
                    ELSE b.obs[c]]]

\* sc.pp.filter_genes(adata, min_cells=...) (line 55): records the number of
\* nonzero entries of each column as var['n_cells'] and subsets the object in
\* place to the columns whose number is >= min_cells.
filter_genes(a, min_cells) ==
    LET number == [j \in 1..Len(a.var_names) |->
                      CountNonzero([i \in 1..Len(a.X) |-> a.X[i][j]])]
        gene_subset == [j \in 1..Len(a.var_names) |-> number[j] >= min_cells]
    IN TakeVar(SetVar(a, "n_cells", number), MaskIdx(gene_subset))

\* Line 59: the mask of the genes whose name starts with 'MT-'.
mito_genes(a) == [j \in 1..Len(a.var_names) |-> StartsWith(a.var_names[j], MitoPrefix)]

\* Lines 61-62: per cell, the sum over the mito genes divided by the sum over
\* all genes.
percent_mito(a) ==
    LET idx == MaskIdx(mito_genes(a))
    IN [i \in 1..Len(a.X) |-> TrueDivide(SeqSum(Take(a.X[i], idx)), SeqSum(a.X[i]))]

\* Line 64: total counts per cell.
n_counts(a) == [i \in 1..Len(a.X) |-> SeqSum(a.X[i])]

\* Lines 59-64 together.
mito_stats(a) == SetObs(SetObs(a, "percent_mito", percent_mito(a)), "n_counts", n_counts(a))

\* Variant of resolve_idx: the new positions are used as they are, as if the
\* object indexed were the underlying one.
resolve_idx_unresolved(old, new) == new

\* Index resolution of a view of a view: the positions new select among the
\* rows old of the underlying object.
resolve_idx(old, new) == Take(old, new)

\* adata[mask, :] (lines 74, 75): a view of the underlying actual object; a
\* view taken of a view refers to the same underlying object.
obs_view(a, mask) ==
    LET root == IF a.ref = NoRef THEN a ELSE a.ref[1]
        old == IF a.ref = NoRef THEN [k \in 1..Len(a.X) |-> k] ELSE a.oidx
        idx == resolve_idx(old, MaskIdx(mask))
    IN [TakeObs(root, idx) EXCEPT !.ref = <<root>>, !.oidx = idx]

\* Line 74: adata[adata.obs['n_genes'] < thr_n_genes, :]
cut_n_genes(a, thr) ==
    obs_view(a, [i \in 1..Len(a.X) |-> a.obs["n_genes"][i] < thr])

\* Variant of cut_percent_mito: the comparison is <=.
cut_percent_mito_le(a, thr) ==
    obs_view(a, [i \in 1..Len(a.X) |->
                   LET x == a.obs["percent_mito"][i]
                   IN IF x[2] = 0 THEN FALSE ELSE x[1] * thr[2] <= thr[1] * x[2]])

\* Variant of cut_percent_mito: the mask is written as the negation of >=, so
\* a nan fraction passes it.
cut_percent_mito_not_ge(a, thr) ==
    obs_view(a, [i \in 1..Len(a.X) |->
                   LET x == a.obs["percent_mito"][i]
                   IN IF x = NaN THEN TRUE
                      ELSE IF x[2] = 0 THEN FALSE ELSE x[1] * thr[2] < thr[1] * x[2]])

\* Line 75: adata[adata.obs['percent_mito'] < thr_pct_mito, :]
cut_percent_mito(a, thr) ==
    obs_view(a, [i \in 1..Len(a.X) |-> FloatLess(a.obs["percent_mito"][i], thr)])

\* The object has no cells: the point size 120000 / n of sc.pl.scatter
\* (line 71) is a division by zero (ZeroDivisionError).
NoCells(a) == Len(a.obs_names) = 0

\* loompy rejects a main matrix with an empty axis (ValueError in lp.create).
IsEmpty(a) == Len(a.obs_names) = 0 \/ Len(a.var_names) = 0

\* Lines 79-88: the loom file written from a non-empty object: the matrix
\* transposed to genes x cells, Gene, CellID and nGene / nUMI recomputed from
\* the filtered matrix.
loom_of(a) ==
    LET Xt == Transpose(a.X)
    IN [matrix |-> Xt,
        ra |-> [Gene |-> a.var_names],
        ca |-> [CellID |-> a.obs_names,
                nGene |-> [i \in 1..Len(a.X) |->
                              CountNonzero([j \in 1..Len(Xt) |-> Xt[j][i]])],
                nUMI |-> [i \in 1..Len(a.X) |->
                              SeqSum([j \in 1..Len(Xt) |-> Xt[j][i]])]]]

\* ------------------------------------------------------------- state ----
VARIABLES
    pc,             \* the statement initialFiltering executes next
    run,            \* 1: the first invocation, 2: the one on its own output
    args,           \* the parsed command line (thresholds)
    loom_input,     \* the file at args.loom_input
    adata,          \* the AnnData object bound to the name adata
    loom_filtered,  \* the file at args.loom_filtered: << >> or <<file>>
    hist            \* per executed statement, the cell and gene identifiers

vars == <<pc, run, args, loom_input, adata, loom_filtered, hist>>

Snapshot(step, a) == [step |-> step, cells |-> a.obs_names, genes |-> a.var_names]

\* The unfiltered loom files: every genes x cells matrix over Counts, cells
\* identified by their barcode number.
InputFiles ==
    { [matrix |-> m,
       ra |-> [Gene |-> GeneNames],
       ca |-> [CellID |-> [i \in 1..NC |-> i]]] :
      m \in [1..NG -> [1..NC -> Counts]] }

ArgsSet ==
    [thr_min_genes : ThrMinGenesSet, thr_min_cells : ThrMinCellsSet,
     thr_n_genes : ThrNGenesSet, thr_pct_mito : ThrPctMitoSet]

\* After line 31: the command line is parsed and the input file is read.
Init ==
    /\ pc = "filter_cells"
    /\ run = 1
    /\ args \in ArgsSet
    /\ loom_input \in InputFiles
    /\ adata = read_loom(loom_input)
    /\ loom_filtered = << >>
    /\ hist = <<Snapshot("read_loom", adata)>>

\* Line 54.
FilterCells ==
    /\ pc = "filter_cells"
    /\ adata' = filter_cells(adata, args.thr_min_genes)
    /\ hist' = Append(hist, Snapshot("filter_cells", adata'))
    /\ pc' = "filter_genes"
    /\ UNCHANGED <<run, args, loom_input, loom_filtered>>

\* Line 55.
FilterGenes ==
    /\ pc = "filter_genes"
    /\ adata' = filter_genes(adata, args.thr_min_cells)
    /\ hist' = Append(hist, Snapshot("filter_genes", adata'))
    /\ pc' = "mito_stats"
    /\ UNCHANGED <<run, args, loom_input, loom_filtered>>

\* Lines 59-72 with at least one cell left: the statistics are recorded and
\* the plots of lines 68-72 are drawn (they read adata and change nothing).
MitoStats ==
    /\ pc = "mito_stats"
    /\ ~NoCells(adata)
    /\ adata' = mito_stats(adata)
    /\ hist' = Append(hist, Snapshot("mito_stats", adata'))
    /\ pc' = "cut_n_genes"
    /\ UNCHANGED <<run, args, loom_input, loom_filtered>>

\* Lines 59-72 with no cell left: the statistics are recorded (empty columns)
\* and the plotting raises, sc.pl.scatter dividing by the number of cells; the
\* process ends before the cuts, without an output file.
PlotFails ==
    /\ pc = "mito_stats"
    /\ NoCells(adata)
    /\ adata' = mito_stats(adata)
    /\ hist' = Append(hist, Snapshot("mito_stats", adata'))
    /\ pc' = "error"
    /\ UNCHANGED <<run, args, loom_input, loom_filtered>>

\* Line 74.
CutNGenes ==
    /\ pc = "cut_n_genes"
    /\ adata' = cut_n_genes(adata, args.thr_n_genes)
    /\ hist' = Append(hist, Snapshot("cut_n_genes", adata'))
    /\ pc' = "cut_percent_mito"
    /\ UNCHANGED <<run, args, loom_input, loom_filtered>>

\* Line 75.
CutPercentMito ==
    /\ pc = "cut_percent_mito"
    /\ adata' = cut_percent_mito(adata, args.thr_pct_mito)
    /\ hist' = Append(hist, Snapshot("cut_percent_mito", adata'))
    /\ pc' = "write"
    /\ UNCHANGED <<run, args, loom_input, loom_filtered>>

\* Lines 79-88 on a non-empty object: the output file is written.
WriteLoom ==
    /\ pc = "write"
    /\ ~IsEmpty(adata)
    /\ loom_filtered' = <<loom_of(adata)>>
    /\ pc' = "done"
    /\ UNCHANGED <<run, args, loom_input, adata, hist>>

\* Lines 79-88 on an object without cells or without genes: lp.create raises
\* and the process ends without an output file.
WriteFails ==
    /\ pc = "write"
    /\ IsEmpty(adata)
    /\ pc' = "error"
    /\ UNCHANGED <<run, args, loom_input, adata, loom_filtered, hist>>

\* The script is run again with the same thresholds on the file it wrote
\* (lines 19-31 of the second process).
Rerun ==
    /\ pc = "done"
    /\ run = 1
    /\ run' = 2
    /\ loom_input' = loom_filtered[1]
    /\ adata' = read_loom(loom_filtered[1])
    /\ loom_filtered' = << >>
    /\ hist' = <<Snapshot("read_loom", adata')>>
    /\ pc' = "filter_cells"
    /\ UNCHANGED args

Next ==
    \/ FilterCells
    \/ FilterGenes
    \/ MitoStats
    \/ PlotFails
    \/ CutNGenes
    \/ CutPercentMito
    \/ WriteLoom
    \/ WriteFails
    \/ Rerun

Spec == Init /\ [][Next]_vars

\* ------------------------------------------------- vocabulary of claims ----
Range(s) == {s[k] : k \in DOMAIN s}

\* The file at args.loom_filtered exists.
Written == loom_filtered # << >>

\* The cells and genes of the input file of the current invocation.
InCells == Range(loom_input.ca.CellID)

InGenes == Range(loom_input.ra.Gene)

CellPos(c) == CHOOSE i \in DOMAIN loom_input.ca.CellID : loom_input.ca.CellID[i] = c

GenePos(g) == CHOOSE j \in DOMAIN loom_input.ra.Gene : loom_input.ra.Gene[j] = g

\* The count of gene g in cell c in the input file.
InputCount(c, g) == loom_input.matrix[GenePos(g)][CellPos(c)]

RECURSIVE SetSum(_, _, _)
\* Sum of the counts of cell c over the genes G.
SetSum(c, G, acc) ==
    IF G = {} THEN acc
    ELSE LET g == CHOOSE x \in G : TRUE IN SetSum(c, G \ {g}, acc + InputCount(c, g))

TotalOver(c, G) == SetSum(c, G, 0)

MitoOver(c, G) == SetSum(c, {g \in G : StartsWith(g, MitoPrefix)}, 0)

\* Genes of G detected in cell c; cells of C in which gene g is detected.
GenesDetected(c, G) == Cardinality({g \in G : InputCount(c, g) > 0})

CellsDetected(g, C) == Cardinality({c \in C : InputCount(c, g) > 0})

\* The cell / gene sets after a statement of the current invocation:
\* 1 read_loom, 2 filter_cells, 3 filter_genes, 4 mito_stats, 5 cut_n_genes,
\* 6 cut_percent_mito.
CellsAt(k) == Range(hist[k].cells)

GenesAt(k) == Range(hist[k].genes)

OutCells == Range(loom_filtered[1].ca.CellID)

OutGenes == Range(loom_filtered[1].ra.Gene)

\* The invocation has ended, with or without an output file.
Ended == pc \in {"done", "error"}

\* The second invocation left the cells and the genes of its input unchanged.
FixedPoint == Range(adata.obs_names) = InCells /\ Range(adata.var_names) = InGenes

\* The input file itself meets both minimum thresholds.
MeetsMinima ==
    /\ \A c \in InCells : GenesDetected(c, InGenes) >= args.thr_min_genes
    /\ \A g \in InGenes : CellsDetected(g, InCells) >= args.thr_min_cells

\* Cells that survive steps 1-2 with zero total counts over the genes that
\* survive step 2.
ZeroCells == IF Len(hist) >= 3 THEN {c \in CellsAt(3) : TotalOver(c, GenesAt(3)) = 0} ELSE {}

\* ---------------------------------------------------------------- C1 ----
\* C1 (as stated): a second run of the pipeline on the output of the first,
\* with the same thresholds, leaves the set of cells and the set of genes
\* unchanged.
C1_RerunIsFixedPoint == (run = 2 /\ Ended) => FixedPoint

\* C1 (amended): the second run leaves the cells and genes of the first output
\* unchanged exactly when that output itself meets the two minimum thresholds
\* (every cell has >= thr_min_genes detected genes over the output's genes and
\* every gene is detected in >= thr_min_cells of the output's cells).
C1_FixedPointIffMinimaMet == (run = 2 /\ Ended) => (FixedPoint <=> MeetsMinima)

C1_Witness ==
    /\ run = 2 /\ pc = "done" /\ FixedPoint
    /\ args.thr_min_genes > 0 /\ args.thr_min_cells > 0

\* ---------------------------------------------------------------- C2 ----
\* C2 (as stated): every cell of the written output has at least thr_min_genes
\* detected genes, counted over the genes of the output (its nGene attribute).
C2_OutputNGeneAtLeastMin ==
    Written => \A i \in DOMAIN loom_filtered[1].ca.nGene :
                   loom_filtered[1].ca.nGene[i] >= args.thr_min_genes

\* C2 (amended): every cell of the written output has at least thr_min_genes
\* detected genes, counted over the genes of the input matrix.
C2_OutputCellsMetMinOnInput ==
    Written => \A c \in OutCells : GenesDetected(c, InGenes) >= args.thr_min_genes

C2_Witness ==
    /\ Written /\ run = 1 /\ args.thr_min_genes = 2
    /\ OutCells # InCells /\ OutGenes # InGenes

\* ---------------------------------------------------------------- C3 ----
\* C3 (as stated): every gene of the written output is detected in at least
\* thr_min_cells of the cells of the written output.
C3_OutputGenesMetMinOnOutput ==
    Written => \A g \in OutGenes : CellsDetected(g, OutCells) >= args.thr_min_cells

\* C3 (amended): every gene of the written output is detected in at least
\* thr_min_cells of the cells that survived step 1.
C3_OutputGenesMetMinAfterStep1 ==
    Written => \A g \in OutGenes : CellsDetected(g, CellsAt(2)) >= args.thr_min_cells

C3_Witness ==
    /\ Written /\ run = 1 /\ args.thr_min_cells = 2
    /\ OutGenes # InGenes /\ CellsAt(2) # InCells

\* ---------------------------------------------------------------- C4 ----
\* C4 (as stated): a cell whose mitochondrial fraction over the matrix as
\* given to the pipeline is >= thr_pct_mito is never in the output.
C4_HighMitoOnInputRemoved ==
    Written => \A c \in InCells :
        (/\ TotalOver(c, InGenes) > 0
         /\ MitoOver(c, InGenes) * args.thr_pct_mito[2]
               >= args.thr_pct_mito[1] * TotalOver(c, InGenes))
        => c \notin OutCells

\* C4 (amended): a cell whose mitochondrial fraction over the genes that
\* survive step 2 is >= thr_pct_mito is never in the output.
C4_HighMitoAfterStep2Removed ==
    Written => \A c \in CellsAt(3) :
        (/\ TotalOver(c, GenesAt(3)) > 0
         /\ MitoOver(c, GenesAt(3)) * args.thr_pct_mito[2]
               >= args.thr_pct_mito[1] * TotalOver(c, GenesAt(3)))
        => c \notin OutCells

C4_Witness ==
    /\ Written /\ run = 1
    /\ \E c \in CellsAt(5) :
          /\ TotalOver(c, GenesAt(3)) > 0
          /\ MitoOver(c, GenesAt(3)) * args.thr_pct_mito[2]
                >= args.thr_pct_mito[1] * TotalOver(c, GenesAt(3))
          /\ MitoOver(c, GenesAt(3)) < TotalOver(c, GenesAt(3))

\* ---------------------------------------------------------------- C5 ----
\* C5 (as stated): when a cell that survives steps 1-2 has zero total counts
\* in the narrowed matrix, the run ends at the fraction computation: the cut
\* steps are not executed and no output file is written.
C5_ZeroCountCellIsFatal ==
    ZeroCells # {} => (Len(hist) <= 3 /\ ~Written)

\* C5 (amended): for such a cell the division yields nan without an error: the
\* run goes on through both cut steps, step 5 removes the cell, and the only
\* failure of such a run is the write of a matrix left without cells or
\* without genes.
C5_ZeroCountCellIsCut ==
    (Len(hist) = 4 \/ Len(hist) >= 6) =>
         LET Z == ZeroCells
         IN Z # {} =>
            /\ Len(hist) = 4 =>
                  /\ pc = "cut_n_genes"
                  /\ \A i \in DOMAIN adata.obs_names :
                        adata.obs_names[i] \in Z => adata.obs["percent_mito"][i] = NaN
            /\ Len(hist) >= 6 => Z \cap CellsAt(6) = {}
            /\ pc = "error" => (Len(hist) = 6 /\ IsEmpty(adata))
            /\ Written => Z \cap OutCells = {}

C5_Witness ==
    /\ Written /\ run = 1
    /\ \E c \in ZeroCells : TotalOver(c, InGenes) > 0

\* ---------------------------------------------------------------- C6 ----
\* C6: after each filter step the cells and the genes are a subset of those
\* before it, their numbers do not increase, and a cell or gene absent after
\* one step is absent after every later step and from the written output
\* (stated of the latest step against every earlier one, in every state).
C6_Monotone ==
    /\ LET l == Len(hist)
       IN \A k \in 1..l :
            /\ CellsAt(l) \subseteq CellsAt(k)
            /\ GenesAt(l) \subseteq GenesAt(k)
            /\ Len(hist[l].cells) <= Len(hist[k].cells)
            /\ Len(hist[l].genes) <= Len(hist[k].genes)
    /\ Written => /\ OutCells \subseteq CellsAt(Len(hist))
                  /\ OutGenes \subseteq GenesAt(Len(hist))

C6_Witness ==
    /\ Written /\ run = 1
    /\ Len(hist[2].cells) < Len(hist[1].cells)
    /\ Len(hist[3].genes) < Len(hist[2].genes)
    /\ Len(hist[6].cells) < Len(hist[4].cells)

\* ---------------------------------------------------------------- C7 ----
\* C7: every cell of the written output has a nonzero total count over the
\* output's genes, and its mitochondrial fraction over them lies in [0,1] and
\* is strictly below thr_pct_mito.
C7_OutputMitoDefinedAndBelow ==
    Written => \A c \in OutCells :
        /\ TotalOver(c, OutGenes) # 0
        /\ 0 <= MitoOver(c, OutGenes)
        /\ MitoOver(c, OutGenes) <= TotalOver(c, OutGenes)
        /\ MitoOver(c, OutGenes) * args.thr_pct_mito[2]
              < args.thr_pct_mito[1] * TotalOver(c, OutGenes)

C7_Witness ==
    /\ Written /\ run = 1 /\ args.thr_min_genes = 0
    /\ ZeroCells # {}
    /\ \E c \in OutCells : MitoOver(c, OutGenes) > 0

\* ---------------------------------------------------------------- C8 ----
\* The object a has one identifier and one entry of every annotation per
\* matrix row / column, and each identifier labels the counts (and n_genes)
\* of the input cell / gene of that name.
Aligned(a) ==
    /\ Len(a.obs_names) = Len(a.X)
    /\ \A col \in DOMAIN a.obs : Len(a.obs[col]) = Len(a.X)
    /\ \A col \in DOMAIN a.var : Len(a.var[col]) = Len(a.var_names)
    /\ LET gpos == [j \in DOMAIN a.var_names |-> GenePos(a.var_names[j])]
       IN \A i \in DOMAIN a.X :
            LET cpos == CellPos(a.obs_names[i])
            IN /\ Len(a.X[i]) = Len(a.var_names)
               /\ \A j \in DOMAIN a.var_names :
                     a.X[i][j] = loom_input.matrix[gpos[j]][cpos]
               /\ "n_genes" \in DOMAIN a.obs =>
                     a.obs["n_genes"][i] =
                        Cardinality({j \in DOMAIN loom_input.matrix :
                                        loom_input.matrix[j][cpos] > 0})

\* C8: after every step, and in the written output, identifiers and per-cell
\* annotations have one entry per matrix position and the i-th identifier
\* labels the counts of the cell / gene it labelled at load.
C8_AnnotationsAligned ==
    /\ Aligned(adata)
    /\ Written =>
         LET f == loom_filtered[1]
         IN /\ Len(f.ra.Gene) = Len(f.matrix)
            /\ \A col \in DOMAIN f.ca : Len(f.ca[col]) = Len(f.ca.CellID)
            /\ \A j \in DOMAIN f.matrix :
                  /\ Len(f.matrix[j]) = Len(f.ca.CellID)
                  /\ \A i \in DOMAIN f.ca.CellID :
                        f.matrix[j][i] = InputCount(f.ca.CellID[i], f.ra.Gene[j])
            /\ \A i \in DOMAIN f.ca.CellID :
                  /\ f.ca.nGene[i] = GenesDetected(f.ca.CellID[i], OutGenes)
                  /\ f.ca.nUMI[i] = TotalOver(f.ca.CellID[i], OutGenes)

C8_Witness ==
    /\ Written /\ run = 1
    /\ 1 \notin OutCells
    /\ GeneNames[1] \notin OutGenes
    /\ \E c \in OutCells : TotalOver(c, OutGenes) > GenesDetected(c, OutGenes)

\* ---------------------------------------------------------------- C9 ----
\* Both forms are stated of the state right after step 4 (line 74).
\* C9 (as stated): step 4 keeps exactly the cells surviving steps 1-2 whose
\* number of detected genes over the genes surviving step 2 is < thr_n_genes.
C9_Step4CountsNarrowedGenes ==
    pc = "cut_percent_mito" =>
        CellsAt(5) = {c \in CellsAt(4) : GenesDetected(c, GenesAt(3)) < args.thr_n_genes}

\* C9 (amended): step 4 keeps exactly the cells surviving steps 1-2 whose
\* number of detected genes over the genes of the input matrix (the n_genes
\* annotation recorded by step 1) is < thr_n_genes.
C9_Step4CountsInputGenes ==
    pc = "cut_percent_mito" =>
        CellsAt(5) = {c \in CellsAt(4) : GenesDetected(c, InGenes) < args.thr_n_genes}

C9_Witness ==
    /\ pc = "cut_percent_mito" /\ run = 1
    /\ CellsAt(5) # CellsAt(4) /\ CellsAt(5) # {}
    /\ GenesAt(3) # InGenes

\* --------------------------------------------------------------- C10 ----
\* The cells with at least thr_min_genes detected genes in the input.
Step1Survivors == {c \in InCells : GenesDetected(c, InGenes) >= args.thr_min_genes}

\* The gene filter applied before the cell filter.
Swapped == filter_cells(filter_genes(read_loom(loom_input), args.thr_min_cells),
                        args.thr_min_genes)

\* Stated of the state right after step 2 (line 55).
\* C10: the gene filter of step 2 counts cells-detected over the cells that
\* survived step 1 only (and, witnessed below, for some matrices the gene
\* filter applied first gives other cells or genes).
C10_GeneFilterCountsStep1Survivors ==
    pc = "mito_stats" =>
        /\ CellsAt(3) = Step1Survivors
        /\ GenesAt(3) = {g \in InGenes :
                            CellsDetected(g, Step1Survivors) >= args.thr_min_cells}

C10_Witness ==
    /\ pc = "mito_stats" /\ run = 1
    /\ Step1Survivors # InCells
    /\ \/ Range(Swapped.obs_names) # CellsAt(3)
       \/ Range(Swapped.var_names) # GenesAt(3)

====
